---- MODULE Spec2Model ----
(***************************************************************************)
(* The benchmark-file generator of scripts/gen_1gb.py: four sections       *)
(* (log text, packed records, random bytes, alternating zero/random        *)
(* blocks) generated chunk by chunk from one seeded generator, with magic  *)
(* byte patterns planted at absolute offsets, written to one output file.  *)
(*                                                                         *)
(* Bytes are the integers 0..255 and the output file is the sequence of    *)
(* bytes written so far.  Sizes are scaled: the unit MiB stands for the    *)
(* code's 1024*1024, so that CHUNK, the block size, SECTION_SIZE and       *)
(* TARGET_SIZE keep the code's ratios.  Python's random.Random (the        *)
(* Mersenne Twister) is library code; it is modelled by a 16-bit linear    *)
(* congruential generator: what the model keeps of it is that every draw   *)
(* is a function of the state and advances the state.                      *)
(***************************************************************************)
EXTENDS Integers, Sequences, FiniteSets, TLC

\* ---------------------------------------------------------------- bounds
\* The scaled unit: the number of bytes that stands for 1024 * 1024.
MiB == 16
\* SECTION_SIZE in units of MiB (256 in the code).
SectionMiB == 8
\* TARGET_SIZE in units of MiB (1024 in the code).
TargetMiB == 32
\* The largest number of entries of MAGIC_OFFSETS (11 in the code).
MaxSigs == 2

\* ------------------------------------------------------------- constants
TARGET_SIZE == TargetMiB * MiB

CHUNK == 4 * MiB

block_size == 1 * MiB

SECTION_SIZE == SectionMiB * MiB

\* The seed of random.Random(42).
SEED == 42

\* The first timestamp of gen_ascii_log and of gen_structured_records.
TS_BASE == 1700000000

Min(a, b) == IF a < b THEN a ELSE b

\* 'INFO', 'WARN', 'ERROR', 'DEBUG', 'TRACE'
levels ==
  << <<73, 78, 70, 79>>,
     <<87, 65, 82, 78>>,
     <<69, 82, 82, 79, 82>>,
     <<68, 69, 66, 85, 71>>,
     <<84, 82, 65, 67, 69>> >>

\* 'server', 'db', 'auth', 'cache', 'net', 'io', 'parser', 'render'
modules ==
  << <<115, 101, 114, 118, 101, 114>>,
     <<100, 98>>,
     <<97, 117, 116, 104>>,
     <<99, 97, 99, 104, 101>>,
     <<110, 101, 116>>,
     <<105, 111>>,
     <<112, 97, 114, 115, 101, 114>>,
     <<114, 101, 110, 100, 101, 114>> >>

\* 'request processed successfully', 'connection established', 'cache miss for key', 'timeout waiting for response', 'retrying operation', 'invalid input received', 'shutting down gracefully', 'loaded configuration from disk', 'spawned worker thread', 'checksum verification passed'
messages ==
  << <<114, 101, 113, 117, 101, 115, 116, 32, 112, 114, 111, 99, 101, 115, 115, 101, 100, 32, 115, 117, 99, 99, 101, 115, 115, 102, 117, 108, 108, 121>>,
     <<99, 111, 110, 110, 101, 99, 116, 105, 111, 110, 32, 101, 115, 116, 97, 98, 108, 105, 115, 104, 101, 100>>,
     <<99, 97, 99, 104, 101, 32, 109, 105, 115, 115, 32, 102, 111, 114, 32, 107, 101, 121>>,
     <<116, 105, 109, 101, 111, 117, 116, 32, 119, 97, 105, 116, 105, 110, 103, 32, 102, 111, 114, 32, 114, 101, 115, 112, 111, 110, 115, 101>>,
     <<114, 101, 116, 114, 121, 105, 110, 103, 32, 111, 112, 101, 114, 97, 116, 105, 111, 110>>,
     <<105, 110, 118, 97, 108, 105, 100, 32, 105, 110, 112, 117, 116, 32, 114, 101, 99, 101, 105, 118, 101, 100>>,
     <<115, 104, 117, 116, 116, 105, 110, 103, 32, 100, 111, 119, 110, 32, 103, 114, 97, 99, 101, 102, 117, 108, 108, 121>>,
     <<108, 111, 97, 100, 101, 100, 32, 99, 111, 110, 102, 105, 103, 117, 114, 97, 116, 105, 111, 110, 32, 102, 114, 111, 109, 32, 100, 105, 115, 107>>,
     <<115, 112, 97, 119, 110, 101, 100, 32, 119, 111, 114, 107, 101, 114, 32, 116, 104, 114, 101, 97, 100>>,
     <<99, 104, 101, 99, 107, 115, 117, 109, 32, 118, 101, 114, 105, 102, 105, 99, 97, 116, 105, 111, 110, 32, 112, 97, 115, 115, 101, 100>> >>

MAGICS ==
  [ ELF  |-> <<127, 69, 76, 70, 2, 1, 1, 0, 0, 0, 0, 0, 0, 0, 0, 0>>,
    PNG  |-> <<137, 80, 78, 71, 13, 10, 26, 10, 0, 0, 0, 0, 0, 0, 0, 0>>,
    PDF  |-> <<37, 80, 68, 70, 45, 49, 46, 55, 10, 0, 0, 0, 0, 0, 0>>,
    ZIP  |-> <<80, 75, 3, 4, 0, 0, 0, 0, 0, 0, 0, 0, 0, 0, 0, 0>>,
    JPEG |-> <<255, 216, 255, 224, 0, 0, 0, 0, 0, 0, 0, 0, 0, 0, 0, 0>> ]

\* ------------------------------------------------ the seeded generator
\* One step of the generator's state.
RngNext(s) == (s * 25173 + 13849) % 65536

\* rng.randint(lo, hi): a value in lo..hi and the advanced state.
randint(s, lo, hi) ==
  [val |-> lo + (RngNext(s) % (hi - lo + 1)), rng |-> RngNext(s)]

\* rng.choice(seq): an element of seq and the advanced state.
choice(s, seq) ==
  [val |-> seq[1 + (RngNext(s) % Len(seq))], rng |-> RngNext(s)]

\* rng.getrandbits(8): a byte and the advanced state.
getrandbits8(s) ==
  [val |-> RngNext(s) \div 256, rng |-> RngNext(s)]

RECURSIVE RandBytesLoop(_, _, _)
RandBytesLoop(s, n, buf) ==
  IF n <= 0 THEN [buf |-> buf, rng |-> s]
  ELSE LET b == getrandbits8(s)
       IN RandBytesLoop(b.rng, n - 1, Append(buf, b.val))

\* rng.randbytes(n), and bytes(rng.getrandbits(8) for _ in range(n)).
randbytes(s, n) == RandBytesLoop(s, n, <<>>)

\* ------------------------------------------------------------ encodings
\* struct.pack of an unsigned or non-negative integer, little endian, w bytes.
RECURSIVE PackLE(_, _)
PackLE(n, w) ==
  IF w = 0 THEN <<>> ELSE <<n % 256>> \o PackLE(n \div 256, w - 1)

\* struct.pack("<IqI", rec_id, ts, val): no padding, 4 + 8 + 4 bytes.
PackRecordHeader(rec_id, ts, val) ==
  PackLE(rec_id, 4) \o PackLE(ts, 8) \o PackLE(val, 4)

\* str(n).encode("ascii") for n >= 0.
RECURSIVE Decimal(_)
Decimal(n) ==
  IF n < 10 THEN <<48 + n>> ELSE Append(Decimal(n \div 10), 48 + (n % 10))

\* f"{s:5s}": s left-justified, padded with spaces to width w, never cut.
RECURSIVE PadRight(_, _)
PadRight(s, w) == IF Len(s) >= w THEN s ELSE PadRight(Append(s, 32), w)

\* f"[{ts}] {level:5s} {mod:8s} | {msg}\n".encode("ascii")
FormatLine(ts, level, mod, msg) ==
  <<91>> \o Decimal(ts) \o <<93, 32>> \o PadRight(level, 5) \o <<32>>
    \o PadRight(mod, 8) \o <<32, 124, 32>> \o msg \o <<10>>

\* --------------------------------------------------- entropy generators
RECURSIVE LogLoop(_, _, _, _)
LogLoop(s, ts, buf, size) ==
  IF Len(buf) >= size THEN [buf |-> SubSeq(buf, 1, size), rng |-> s]
  ELSE LET d   == randint(s, 1, 5000)
           lvl == choice(d.rng, levels)
           md  == choice(lvl.rng, modules)
           msg == choice(md.rng, messages)
           ts2 == ts + d.val
       IN LogLoop(msg.rng, ts2,
                  buf \o FormatLine(ts2, lvl.val, md.val, msg.val), size)

gen_ascii_log(s, size) == LogLoop(s, TS_BASE, <<>>, size)

RECURSIVE RecordLoop(_, _, _, _)
RecordLoop(s, rec_id, buf, size) ==
  IF Len(buf) >= size THEN [buf |-> SubSeq(buf, 1, size), rng |-> s]
  ELSE LET j       == randint(s, 0, 50)
           ts      == TS_BASE + rec_id * 100 + j.val
           v       == randint(j.rng, 0, 1000000)
           payload == randbytes(v.rng, 16)
       IN RecordLoop(payload.rng, rec_id + 1,
                     buf \o PackRecordHeader(rec_id, ts, v.val) \o payload.buf,
                     size)

gen_structured_records(s, size) == RecordLoop(s, 0, <<>>, size)

gen_random_data(s, size) == randbytes(s, size)

gen_zeros(size) == [i \in 1..size |-> 0]

\* ------------------------------------------------------- the magic map
\* magic_map[offset] = data on a dict that keeps insertion order: a new key
\* is appended, an existing key keeps its place and takes the new value.
DictSet(d, k, v) ==
  IF \E i \in 1..Len(d) : d[i].mo = k
  THEN [i \in 1..Len(d) |-> IF d[i].mo = k THEN [mo |-> k, mdata |-> v] ELSE d[i]]
  ELSE Append(d, [mo |-> k, mdata |-> v])

RECURSIVE BuildMagicMap(_, _)
BuildMagicMap(list, d) ==
  IF list = <<>> THEN d
  ELSE BuildMagicMap(Tail(list),
                     DictSet(d, Head(list).offset, MAGICS[Head(list).name]))

\* The test of "if 0 <= rel < len(chunk) and rel + len(mdata) <= len(chunk)".
SpliceGuardNoEnd(rel, chunk, mdata) == 0 <= rel /\ rel < Len(chunk)

SpliceGuard(rel, chunk, mdata) ==
  0 <= rel /\ rel < Len(chunk) /\ rel + Len(mdata) <= Len(chunk)

\* chunk[rel:rel + len(mdata)] = mdata on a bytearray, for 0 <= rel: the
\* slice, cut at the end of the buffer, is replaced by mdata.
SliceInsert(chunk, rel, mdata) ==
  SubSeq(chunk, 1, rel) \o mdata \o SubSeq(chunk, rel + 1, Len(chunk))

SliceAssign(chunk, rel, mdata) ==
  SubSeq(chunk, 1, rel) \o mdata
    \o SubSeq(chunk, Min(rel + Len(mdata), Len(chunk)) + 1, Len(chunk))

\* "for mo, mdata in magic_map.items()": every entry, in the map's order.
RECURSIVE PlantFirst(_, _, _)
PlantFirst(chunk, d, w) ==
  IF d = <<>> THEN chunk
  ELSE IF SpliceGuard(Head(d).mo - w, chunk, Head(d).mdata)
       THEN SliceAssign(chunk, Head(d).mo - w, Head(d).mdata)
       ELSE PlantFirst(chunk, Tail(d), w)

RECURSIVE PlantMagics(_, _, _)
PlantMagics(chunk, d, w) ==
  IF d = <<>> THEN chunk
  ELSE LET rel == Head(d).mo - w
       IN PlantMagics(IF SpliceGuard(rel, chunk, Head(d).mdata)
                      THEN SliceAssign(chunk, rel, Head(d).mdata)
                      ELSE chunk,
                      Tail(d), w)

\* The offsets of the entries planted into the chunk at file offset w.
PlantedIn(chunk, d, w) ==
  {d[i].mo : i \in {k \in 1..Len(d) : SpliceGuard(d[k].mo - w, chunk, d[k].mdata)}}

\* ------------------------------------------------------------ the inputs
\* Entries MAGIC_OFFSETS may hold: the start of the file, a second place in
\* the first chunk, a place overlapping the first entry, a place whose span
\* runs over the end of the first chunk, a place in the fourth section whose
\* span runs over the end of a block, the start of the fourth section, and a
\* place whose span runs over the end of the file.
MagicPlaces ==
  { [offset |-> 0,                                 name |-> "ELF"],
    [offset |-> CHUNK \div 2,                      name |-> "PNG"],
    [offset |-> 8,                                 name |-> "ZIP"],
    [offset |-> CHUNK - 8,                         name |-> "JPEG"],
    [offset |-> 3 * SECTION_SIZE + block_size - 8, name |-> "PNG"],
    [offset |-> 3 * SECTION_SIZE,                  name |-> "PDF"],
    [offset |-> TARGET_SIZE - 8,                   name |-> "ELF"] }

\* The lists of at most MaxSigs different entries.
MagicLists ==
  UNION { { l \in [1..n -> MagicPlaces] :
              \A i, j \in 1..n : i # j => l[i] # l[j] } : n \in 0..MaxSigs }

\* The lists holding the entries of l in any order.
Reorderings(l) ==
  { [i \in 1..Len(l) |-> l[p[i]]] :
      p \in { q \in [1..Len(l) -> 1..Len(l)] :
                \A i, j \in 1..Len(l) : i # j => q[i] # q[j] } }

\* The lists a second run is given after a run with l: l reordered, or any
\* list of at most one entry.
SecondLists(l) == Reorderings(l) \cup { m \in MagicLists : Len(m) <= 1 }

\* ------------------------------------------------------------- the state
VARIABLES
  MAGIC_OFFSETS,    \* the list of (offset, name) the run is given
  pc,               \* "Idle", "Log", "Records", "Random", "Mixed",
                    \* "Complete" or "Aborted"
  rng,              \* the state of random.Random
  magic_map,        \* offset -> bytes, in insertion order
  written,          \* the global offset counter
  section_written,  \* bytes of the current section written
  remaining,        \* the size of the fourth section
  block_idx,        \* the index of the current block of the fourth section
  sink,             \* the bytes of the output file
  reported,         \* whether the closing statistics were printed
  planted,          \* history: the offsets of the entries planted
  section_rng,      \* history: the generator's state when the section began
  failure,          \* history: <<>>, or the sink and generator at a failed write
  run,              \* 1 or 2: which run of the program this is
  prev              \* history: the list, output, planted offsets and final
                    \* generator state of run 1

vars ==
  <<MAGIC_OFFSETS, pc, rng, magic_map, written, section_written, remaining,
    block_idx, sink, reported, planted, section_rng, failure, run, prev>>

Init ==
  /\ MAGIC_OFFSETS \in MagicLists
  /\ pc = "Idle"
  /\ rng = 0
  /\ magic_map = <<>>
  /\ written = 0
  /\ section_written = 0
  /\ remaining = 0
  /\ block_idx = 0
  /\ sink = <<>>
  /\ reported = FALSE
  /\ planted = {}
  /\ section_rng = 0
  /\ failure = <<>>
  /\ run = 1
  /\ prev = [list |-> <<>>, sink |-> <<>>, planted |-> {}, rng |-> 0]

\* ----------------------------------------------------------- the actions
\* main up to the first loop: seed the generator, build magic_map, open the
\* output file (truncating it).
Plan ==
  /\ pc = "Idle"
  /\ rng' = SEED
  /\ magic_map' = BuildMagicMap(MAGIC_OFFSETS, <<>>)
  /\ written' = 0
  /\ section_written' = 0
  /\ sink' = <<>>
  /\ section_rng' = SEED
  /\ pc' = "Log"
  /\ UNCHANGED <<MAGIC_OFFSETS, remaining, block_idx, reported, planted,
                 failure, run, prev>>

\* chunk_size = min(CHUNK, SECTION_SIZE - section_written)
ChunkSize(step, size, done) == Min(step, size - done)

\* section_written += chunk_size
AdvanceSection(w, sw, n) == sw + n

\* written += chunk_size
AdvanceWrittenFromSection(w, sw, n) == sw + n

AdvanceWritten(w, sw, n) == w + n

\* An exception of f.write leaves the with block and main: nothing catches it.
OnWriteErrorGoOn(at) == at

OnWriteError(at) == "Aborted"

\* The rest of one loop iteration, for the generated buffer gen.buf: plant
\* the magics, write the chunk, advance the counters.  The write succeeds
\* or raises.
WriteChunk(gen, chunk_size) ==
  LET chunk == PlantMagics(gen.buf, magic_map, written)
  IN /\ rng' = gen.rng
     /\ \/ /\ sink' = sink \o chunk
           /\ planted' = planted \cup PlantedIn(gen.buf, magic_map, written)
           /\ written' = AdvanceWritten(written, section_written, chunk_size)
           /\ section_written' = AdvanceSection(written, section_written, chunk_size)
           /\ UNCHANGED <<pc, failure>>
        \/ /\ pc' = OnWriteError(pc)
           /\ failure' = <<[sink |-> sink, rng |-> gen.rng]>>
           /\ UNCHANGED <<sink, planted, written, section_written>>

\* Section 1: one iteration of "while section_written < SECTION_SIZE".
WriteLog ==
  /\ pc = "Log"
  /\ section_written < SECTION_SIZE
  /\ LET chunk_size == ChunkSize(CHUNK, SECTION_SIZE, section_written)
     IN WriteChunk(gen_ascii_log(rng, chunk_size), chunk_size)
  /\ UNCHANGED <<MAGIC_OFFSETS, magic_map, remaining, block_idx, reported,
                 section_rng, run, prev>>

\* Section 2.
WriteRecords ==
  /\ pc = "Records"
  /\ section_written < SECTION_SIZE
  /\ LET chunk_size == ChunkSize(CHUNK, SECTION_SIZE, section_written)
     IN WriteChunk(gen_structured_records(rng, chunk_size), chunk_size)
  /\ UNCHANGED <<MAGIC_OFFSETS, magic_map, remaining, block_idx, reported,
                 section_rng, run, prev>>

\* Section 3.
WriteRandom ==
  /\ pc = "Random"
  /\ section_written < SECTION_SIZE
  /\ LET chunk_size == ChunkSize(CHUNK, SECTION_SIZE, section_written)
     IN WriteChunk(gen_random_data(rng, chunk_size), chunk_size)
  /\ UNCHANGED <<MAGIC_OFFSETS, magic_map, remaining, block_idx, reported,
                 section_rng, run, prev>>

\* if block_idx % 2 == 0
BlockIsOdd(idx) == idx % 2 = 1

BlockIsZero(idx) == idx % 2 = 0

\* Section 4: one iteration of "while section_written < remaining".
WriteMixed ==
  /\ pc = "Mixed"
  /\ section_written < remaining
  /\ LET chunk_size == ChunkSize(block_size, remaining, section_written)
         gen == IF BlockIsZero(block_idx)
                THEN [buf |-> gen_zeros(chunk_size), rng |-> rng]
                ELSE gen_random_data(rng, chunk_size)
     IN WriteChunk(gen, chunk_size)
  /\ block_idx' = IF pc' = "Aborted" THEN block_idx ELSE block_idx + 1
  /\ UNCHANGED <<MAGIC_OFFSETS, magic_map, remaining, reported, section_rng,
                 run, prev>>

\* The first loop ends; section_written = 0 before the second.
EnterRecords ==
  /\ pc = "Log"
  /\ ~(section_written < SECTION_SIZE)
  /\ pc' = "Records"
  /\ section_written' = 0
  /\ section_rng' = rng
  /\ UNCHANGED <<MAGIC_OFFSETS, rng, magic_map, written, remaining, block_idx,
                 sink, reported, planted, failure, run, prev>>

\* The second loop ends.
EnterRandom ==
  /\ pc = "Records"
  /\ ~(section_written < SECTION_SIZE)
  /\ pc' = "Random"
  /\ section_written' = 0
  /\ section_rng' = rng
  /\ UNCHANGED <<MAGIC_OFFSETS, rng, magic_map, written, remaining, block_idx,
                 sink, reported, planted, failure, run, prev>>

\* The third loop ends: remaining = TARGET_SIZE - written, block_idx = 0.
EnterMixed ==
  /\ pc = "Random"
  /\ ~(section_written < SECTION_SIZE)
  /\ pc' = "Mixed"
  /\ remaining' = TARGET_SIZE - written
  /\ block_idx' = 0
  /\ section_written' = 0
  /\ section_rng' = rng
  /\ UNCHANGED <<MAGIC_OFFSETS, rng, magic_map, written, sink, reported,
                 planted, failure, run, prev>>

\* The fourth loop ends: the file is closed and the statistics are printed.
Finish ==
  /\ pc = "Mixed"
  /\ ~(section_written < remaining)
  /\ pc' = "Complete"
  /\ reported' = TRUE
  /\ UNCHANGED <<MAGIC_OFFSETS, rng, magic_map, written, section_written,
                 remaining, block_idx, sink, planted, section_rng, failure,
                 run, prev>>

\* The program is run a second time, with a list of its own.
Rerun ==
  /\ pc = "Complete"
  /\ run = 1
  /\ run' = 2
  /\ prev' = [list |-> MAGIC_OFFSETS, sink |-> sink, planted |-> planted,
              rng |-> rng]
  /\ MAGIC_OFFSETS' \in SecondLists(MAGIC_OFFSETS)
  /\ pc' = "Idle"
  /\ rng' = 0
  /\ magic_map' = <<>>
  /\ written' = 0
  /\ section_written' = 0
  /\ remaining' = 0
  /\ block_idx' = 0
  /\ reported' = FALSE
  /\ planted' = {}
  /\ section_rng' = 0
  /\ UNCHANGED <<sink, failure>>

Next ==
  \/ Plan
  \/ WriteLog
  \/ WriteRecords
  \/ WriteRandom
  \/ WriteMixed
  \/ EnterRecords
  \/ EnterRandom
  \/ EnterMixed
  \/ Finish
  \/ Rerun

Spec == Init /\ [][Next]_vars

\* ------------------------------------------------ what the claims speak of
\* The positions (from 1) of the output an entry of the map covers.
Span(e) == (e.mo + 1)..(e.mo + Len(e.mdata))

\* Position i lies in the span of an entry of d that was planted.
Covered(i, d, done) ==
  \E k \in 1..Len(d) : d[k].mo \in done /\ i \in Span(d[k])

\* The map built from the list the run was given.
GivenMap == BuildMagicMap(MAGIC_OFFSETS, <<>>)

NoOverlap(d) ==
  \A j, k \in 1..Len(d) : j # k => Span(d[j]) \cap Span(d[k]) = {}

\* The validation the plan is said to pass: every offset in [0, TARGET_SIZE),
\* every span within TARGET_SIZE, no two spans overlapping, no span crossing
\* a multiple of CHUNK.
ValidPlan(d) ==
  /\ \A k \in 1..Len(d) :
       /\ 0 <= d[k].mo /\ d[k].mo < TARGET_SIZE
       /\ d[k].mo + Len(d[k].mdata) <= TARGET_SIZE
       /\ d[k].mo \div CHUNK = (d[k].mo + Len(d[k].mdata) - 1) \div CHUNK
  /\ NoOverlap(d)

Writing == pc \in {"Log", "Records", "Random", "Mixed"}

C2_SignaturePlacement ==
  (pc = "Complete" /\ ValidPlan(magic_map))
    => \A k \in 1..Len(magic_map) :
         SubSeq(sink, magic_map[k].mo + 1,
                magic_map[k].mo + Len(magic_map[k].mdata)) = magic_map[k].mdata

\* C3: a run given a map that fails the validation hands no byte to the sink
\* and is never Complete: it fails when the plan is built.
C3_ValidationRejects ==
  ~ValidPlan(GivenMap) => written = 0 /\ pc # "Complete"

\* C4: a log-text or structured-record section written chunk by chunk holds,
\* outside the planted spans, the bytes of one call of its generator for the
\* whole section from the generator state the section began with.
C4_ChunkIndependence ==
  (pc \in {"Log", "Records"} /\ section_written = SECTION_SIZE)
    => LET one == IF pc = "Log"
                  THEN gen_ascii_log(section_rng, SECTION_SIZE).buf
                  ELSE gen_structured_records(section_rng, SECTION_SIZE).buf
           base == written - SECTION_SIZE
       IN \A i \in 1..SECTION_SIZE :
            ~Covered(base + i, magic_map, planted) => sink[base + i] = one[i]

\* C5: in the structured-record section of the output, the k-th complete
\* 32-byte record that no planted span touches carries id k and a timestamp
\* of 1700000000 + k * 100 + jitter with jitter in 0..50.
C5_RecordIds ==
  pc \in {"Random", "Mixed", "Complete"}
    => \A k \in 0..((SECTION_SIZE \div 32) - 1) :
         LET at == SECTION_SIZE + 32 * k
         IN (\A i \in (at + 1)..(at + 32) : ~Covered(i, magic_map, planted))
              => /\ SubSeq(sink, at + 1, at + 4) = PackLE(k, 4)
                 /\ \E j \in 0..50 :
                      SubSeq(sink, at + 5, at + 12)
                        = PackLE(TS_BASE + k * 100 + j, 8)

C7_SinkFailureAborts ==
  failure # <<>>
    => /\ pc = "Aborted"
       /\ ~reported
       /\ sink = failure[1].sink
       /\ rng = failure[1].rng

C7_Witness ==
  /\ pc = "Aborted"
  /\ failure # <<>>
  /\ 0 < Len(sink)
  /\ Len(sink) < TARGET_SIZE

\* Position i lies in an even-numbered block of the fourth section.
InZeroBlock(i) ==
  /\ i > 3 * SECTION_SIZE
  /\ ((i - 1 - 3 * SECTION_SIZE) \div block_size) % 2 = 0

\* C8: every byte of the output that lies in a zero block of the fourth
\* section and in no planted span is 0.
C8_ZeroBlocks ==
  pc # "Idle"
    => \A i \in 1..Len(sink) :
         (InZeroBlock(i) /\ ~Covered(i, magic_map, planted)) => sink[i] = 0

C8_Witness ==
  /\ pc = "Complete"
  /\ 3 * SECTION_SIZE \in planted
  /\ \E i \in 1..Len(sink) : InZeroBlock(i) /\ Covered(i, magic_map, planted)
  /\ \E i \in 1..Len(sink) :
       InZeroBlock(i) /\ ~Covered(i, magic_map, planted) /\ sink[i] = 0

\* The bytes left of the current section; in the fourth part of the file the
\* current section is the current block.
SectionLeft ==
  IF pc = "Mixed" THEN Min(block_size, remaining - section_written)
  ELSE SECTION_SIZE - section_written

\* C9: while writing, written equals the number of bytes handed to the sink;
\* every write hands over exactly min(CHUNK, bytes left of the current
\* section) bytes, at least 1 and at most CHUNK, and written advances by
\* that number.
C9_ChunkStepping ==
  /\ [](Writing => written = Len(sink))
  /\ [][(Writing /\ sink' # sink)
          => LET n == Len(sink') - Len(sink)
             IN /\ n = Min(CHUNK, SectionLeft)
                /\ 1 <= n /\ n <= CHUNK
                /\ written' = written + n
                /\ written' = Len(sink')]_vars

C9_Witness ==
  /\ pc = "Mixed"
  /\ written = Len(sink)
  /\ 3 * SECTION_SIZE < written
  /\ written < TARGET_SIZE

\* C10: a second run with the same seed and another map draws from the
\* generator as the first did, writes as many bytes, and agrees with the
\* first at every position outside the spans planted in either run.
C10_SpliceNoFeedback ==
  (run = 2 /\ pc = "Complete")
    => /\ rng = prev.rng
       /\ Len(sink) = Len(prev.sink)
       /\ \A i \in 1..Len(sink) :
            (/\ ~Covered(i, magic_map, planted)
             /\ ~Covered(i, BuildMagicMap(prev.list, <<>>), prev.planted))
              => sink[i] = prev.sink[i]

C10_Witness ==
  /\ run = 2
  /\ pc = "Complete"
  /\ planted # {}
  /\ planted # prev.planted
  /\ sink # prev.sink

====
